---- MODULE Spec2Model ----
(***************************************************************************)
(* Replay protection of the meta-transaction contracts.                    *)
(*                                                                         *)
(* A contract that inherits ReplayProtection (the test wrapper             *)
(* ReplayProtectionWrapper, the RelayHub) owns one nonceStore.  Every      *)
(* operation below is one Ethereum transaction: it runs alone, from its    *)
(* first statement to its last, and a revert undoes all of its writes.     *)
(* nonce, bitflip and verify of ReplayProtection follow the design         *)
(* document, with the parameters RelayHub.forward calls verify with and    *)
(* the revert reasons the test suite expects.                              *)
(***************************************************************************)
EXTENDS Integers, FiniteSets, Sequences, TLC

VARIABLES
    nonceStore,  \* the mapping (signer, index, authority) -> uint256
    self,        \* address(this) of the contract that owns nonceStore
    last,        \* the transaction executed last, with its outcome
    accepted,    \* history: the accepted consumptions, each with its count
    calls,       \* history: the meta-transactions whose target call was made
    events,      \* history: the events emitted
    deployed,    \* the addresses that hold a contract made by deployContract
    ntx,         \* number of transactions executed
    verifications \* history: the phase each verification followed step by step is in

vars == <<nonceStore, self, last, accepted, calls, events, deployed, ntx, verifications>>

(*************************** bounds ****************************************)
\* Bits of a stored word that the model distinguishes (256 in the contract).
BitmapWidth == 2
\* Transactions in one behaviour.
MaxTx == 3

(*************************** domains ***************************************)
AddressZero == "0x0000000000000000000000000000000000000000"
AddressOne == "0x0000000000000000000000000000000000000001"
\* Any other authority address: a custom replay protection authority.
AddressCustom == "0x00000000000000000000000000000000000000c0"
Authorities == {AddressZero, AddressOne, AddressCustom}

\* The wallets of the fixture.
Signers == {"admin", "owner"}
\* What ecrecover yields for a signature over another message: an address
\* nobody holds the key of.
Unowned == "unowned"
Addresses == Signers \cup {Unowned}

\* Queue / bitmap indices used by the tests.
Indices == {0, 6175}
\* Values of the second word of a replay protection: every word of
\* BitmapWidth bits (a nonce for Multinonce, a mask for Bitflip).
Values == 0 .. (2 ^ BitmapWidth - 1)

WRAPPER == "ReplayProtectionWrapper"
RELAY_HUB == "RelayHub"
MAINNET == "mainnet"
ROPSTEN == "ropsten"

(*************************** bit arithmetic ********************************)
RECURSIVE BitAnd(_, _)
BitAnd(a, b) ==
    IF a = 0 \/ b = 0 THEN 0
    ELSE (IF a % 2 = 1 /\ b % 2 = 1 THEN 1 ELSE 0) + 2 * BitAnd(a \div 2, b \div 2)

RECURSIVE BitOr(_, _)
BitOr(a, b) ==
    IF a = 0 THEN b
    ELSE IF b = 0 THEN a
    ELSE (IF a % 2 = 1 \/ b % 2 = 1 THEN 1 ELSE 0) + 2 * BitOr(a \div 2, b \div 2)

\* flipBit(bits, bitToFlip) of the tests: bits + 2^bitToFlip.
flipBit(bits, bitToFlip) == bits + 2 ^ bitToFlip

(*************************** the store *************************************)
\* Faulty slot: the index is left out of the hash, so a signer's queues share a slot.
StoreIndex_IgnoresIndex(signer, index, authority) == <<signer, 0, authority>>

\* Faulty slot: the authority is left out of the hash, so the counter and the
\* bitmap of one index share a slot.
StoreIndex_IgnoresAuthority(signer, index, authority) == <<signer, index, AddressZero>>

\* keccak256(abi.encode(signer, index, authority)): the slot of nonceStore.
\* The hash is collision free, so the slot is the triple itself.
StoreIndex(signer, index, authority) == <<signer, index, authority>>

StoreKeys == {StoreIndex(s, i, a) : s \in Addresses, i \in Indices, a \in {AddressZero, AddressOne}}

EmptyStore == [k \in StoreKeys |-> 0]

\* defaultAbiCoder.encode(["uint", "uint"], [nonce1, nonce2]) and its decoding.
EncodeReplayProtection(nonce1, nonce2) == <<nonce1, nonce2>>
DecodeIndex(replayProtection) == replayProtection[1]
DecodeValue(replayProtection) == replayProtection[2]

(*************************** the two strategies ****************************)
\* Outcome of a strategy: the error ("none" when accepted) and the store.
Outcome(err, store) == [err |-> err, store |-> store]

\* Faulty Multinonce: only a nonce below the stored one is refused, so a
\* future nonce is accepted.
nonce_AllowsFuture(store, signer, replayProtection) ==
    LET index == StoreIndex(signer, DecodeIndex(replayProtection), AddressZero)
        submitted == DecodeValue(replayProtection)
    IN  IF submitted < store[index]
        THEN Outcome("NonceOutOfOrder", store)
        ELSE Outcome("none", [store EXCEPT ![index] = submitted + 1])

\* Multinonce: nonce(signer, replayProtection).  Accepted iff the submitted
\* nonce is the stored one; then the stored one is incremented.
nonce(store, signer, replayProtection) ==
    LET index == StoreIndex(signer, DecodeIndex(replayProtection), AddressZero)
        submitted == DecodeValue(replayProtection)
    IN  IF submitted # store[index]
        THEN Outcome("NonceOutOfOrder", store)
        ELSE Outcome("none", [store EXCEPT ![index] = store[index] + 1])

\* Faulty Bitflip: the mask is refused only when all of its bits are set.
bitflip_PartialOverlap(store, signer, replayProtection) ==
    LET index == StoreIndex(signer, DecodeIndex(replayProtection), AddressOne)
        bitsToFlip == DecodeValue(replayProtection)
    IN  IF bitsToFlip = 0
        THEN Outcome("NoBitsToFlip", store)
        ELSE IF BitAnd(bitsToFlip, store[index]) = bitsToFlip
        THEN Outcome("BitAlreadyUsed", store)
        ELSE Outcome("none", [store EXCEPT ![index] = BitOr(store[index], bitsToFlip)])

\* Faulty Bitflip: the mask overwrites the bitmap instead of being OR-ed in.
bitflip_Overwrites(store, signer, replayProtection) ==
    LET index == StoreIndex(signer, DecodeIndex(replayProtection), AddressOne)
        bitsToFlip == DecodeValue(replayProtection)
    IN  IF bitsToFlip = 0
        THEN Outcome("NoBitsToFlip", store)
        ELSE IF BitAnd(bitsToFlip, store[index]) # 0
        THEN Outcome("BitAlreadyUsed", store)
        ELSE Outcome("none", [store EXCEPT ![index] = bitsToFlip])

\* Faulty Bitflip: the mask is not required to hold a bit.
bitflip_NoZeroCheck(store, signer, replayProtection) ==
    LET index == StoreIndex(signer, DecodeIndex(replayProtection), AddressOne)
        bitsToFlip == DecodeValue(replayProtection)
    IN  IF BitAnd(bitsToFlip, store[index]) # 0
        THEN Outcome("BitAlreadyUsed", store)
        ELSE Outcome("none", [store EXCEPT ![index] = BitOr(store[index], bitsToFlip)])

\* Bitflip: bitflip(signer, replayProtection).  "It must flip at least one
\* bit!"; accepted iff none of the bits is set; then they are all set.
bitflip(store, signer, replayProtection) ==
    LET index == StoreIndex(signer, DecodeIndex(replayProtection), AddressOne)
        bitsToFlip == DecodeValue(replayProtection)
    IN  IF bitsToFlip = 0
        THEN Outcome("NoBitsToFlip", store)
        ELSE IF BitAnd(bitsToFlip, store[index]) # 0
        THEN Outcome("BitAlreadyUsed", store)
        ELSE Outcome("none", [store EXCEPT ![index] = BitOr(store[index], bitsToFlip)])

(*************************** transactions **********************************)
\* Bytes are sequences: "0x" is the empty one.
NoBytes == <<>>
NoSignature == <<"-", <<NoBytes, <<0, 0>>, "-", "-", "-">>>>

\* The record of an executed transaction.
Tx(op, target, callData, replayProtection, authority, signer, signature, recovered, err, success) ==
    [op |-> op, target |-> target, callData |-> callData,
     index |-> DecodeIndex(replayProtection), value |-> DecodeValue(replayProtection),
     authority |-> authority, signer |-> signer, signature |-> signature,
     recovered |-> recovered, err |-> err, success |-> success]

\* A consumption, as kept in the history.
Consumption(signer, replayProtection, authority) ==
    <<signer, DecodeIndex(replayProtection), DecodeValue(replayProtection), authority>>
NothingAccepted == {}
\* How often a consumption was accepted in a history.
TimesAccepted(h, consumption) == Cardinality({e \in h : e[1] = consumption})

Record(consumption) ==
    accepted \cup {<<consumption, TimesAccepted(accepted, consumption) + 1>>}

(*************************** ReplayProtectionWrapper ***********************)
\* noncePublic(signer, replayProtection): nonce() made callable. A rejection
\* is the err of the transaction; the store is the one nonce() leaves.
noncePublic(signer, replayProtection) ==
    LET r == nonce(nonceStore, signer, replayProtection)
    IN  /\ ntx < MaxTx
        /\ self = WRAPPER
        /\ nonceStore' = r.store
        /\ accepted' = IF r.err = "none"
                        THEN Record(Consumption(signer, replayProtection, AddressZero))
                        ELSE accepted
        /\ last' = Tx("noncePublic", "-", NoBytes, replayProtection, AddressZero, signer,
                      NoSignature, signer, r.err, FALSE)
        /\ ntx' = ntx + 1
        /\ UNCHANGED <<self, calls, events, deployed, verifications>>

\* bitflipPublic(signer, replayProtection): bitflip() made callable. A
\* rejection is the err of the transaction; the store is the one bitflip()
\* leaves (flipping a used bit again does not update the stored bitmap).
bitflipPublic(signer, replayProtection) ==
    LET r == bitflip(nonceStore, signer, replayProtection)
    IN  /\ ntx < MaxTx
        /\ self = WRAPPER
        /\ nonceStore' = r.store
        /\ accepted' = IF r.err = "none"
                        THEN Record(Consumption(signer, replayProtection, AddressOne))
                        ELSE accepted
        /\ last' = Tx("bitflipPublic", "-", NoBytes, replayProtection, AddressOne, signer,
                      NoSignature, signer, r.err, FALSE)
        /\ ntx' = ntx + 1
        /\ UNCHANGED <<self, calls, events, deployed, verifications>>

(*************************** specifications ********************************)
NoTx == Tx("deploy", "-", NoBytes, <<0, 0>>, "-", "-", NoSignature, "-", "none", FALSE)

\* The state after the fixture deployed ReplayProtectionWrapper.
Init ==
    /\ nonceStore = EmptyStore
    /\ self = WRAPPER
    /\ last = NoTx
    /\ accepted = NothingAccepted
    /\ calls = <<>>
    /\ events = <<>>
    /\ deployed = {}
    /\ ntx = 0
    /\ verifications = <<>>

CallNonce == \E s \in Signers, i \in Indices, v \in Values :
    noncePublic(s, EncodeReplayProtection(i, v))

CallBitflip == \E s \in Signers, i \in Indices, v \in Values :
    bitflipPublic(s, EncodeReplayProtection(i, v))

Next == CallNonce \/ CallBitflip

\* Direct calls of the two strategies on the wrapper.
Spec == Init /\ [][Next]_vars

(*************************** signatures ************************************)
\* Faulty message: the replay protection authority is not part of what is signed.
Message_OmitsAuthority(callData, replayProtection, authority, contract, chainId) ==
    <<callData, replayProtection, AddressZero, contract, chainId>>

\* Faulty message: neither the verifying contract nor the chain id is part
\* of what is signed.
Message_OmitsDomain(callData, replayProtection, authority, contract, chainId) ==
    <<callData, replayProtection, authority, "-", "-">>

\* abi.encode(callData, replayProtection, replayProtectionAuthority,
\* verifying contract, chain id): the message that is hashed and signed.
Message(callData, replayProtection, authority, contract, chainId) ==
    <<callData, replayProtection, authority, contract, chainId>>

\* signer.signMessage(arrayify(keccak256(encodedMessage))): the signature
\* is the pair of who signed and what was signed.
Sign(signer, msg) == <<signer, msg>>
SignedBy(signature) == signature[1]
SignedMessage(signature) == signature[2]

\* ECDSA recovery: the signer for the signed message, and for every other
\* message an address whose key nobody holds.
Recover(msg, signature) ==
    IF SignedMessage(signature) = msg THEN SignedBy(signature) ELSE Unowned

\* signCall of the tests: the signer signs an empty call with the replay
\* protection (nonce1, nonce2) for the given authority and contract.
signCall(replayProtection, replayProtectionAuthority, signer, nonce1, nonce2) ==
    LET callData == NoBytes
        encodedReplayProtection == EncodeReplayProtection(nonce1, nonce2)
        encodedMessage == Message(callData, encodedReplayProtection,
                                  replayProtectionAuthority, replayProtection, MAINNET)
    IN  [callData |-> callData,
         encodedReplayProtection |-> encodedReplayProtection,
         signedCall |-> Sign(signer, encodedMessage)]

(*************************** verify ****************************************)
\* Faulty verify: an authority that is neither ZERO nor ONE is served by the
\* Multinonce strategy.
verify_CustomAsMultinonce(store, this, callData, replayProtection, authority, signature) ==
    LET signer == Recover(Message(callData, replayProtection, authority, this, MAINNET),
                          signature)
        r == IF authority = AddressOne THEN bitflip(store, signer, replayProtection)
             ELSE nonce(store, signer, replayProtection)
    IN  [err |-> r.err, signer |-> signer, store |-> r.store]

\* verify(callData, replayProtection, replayProtectionAuthority, signature):
\* recovers the signer of the message for this contract and chain, consumes
\* the replay protection of that signer with the strategy the authority
\* selects, and returns the signer.
verify(store, this, callData, replayProtection, authority, signature) ==
    LET signer == Recover(Message(callData, replayProtection, authority, this, MAINNET),
                          signature)
        r == IF authority = AddressZero THEN nonce(store, signer, replayProtection)
             ELSE IF authority = AddressOne THEN bitflip(store, signer, replayProtection)
             ELSE Outcome("UnknownAuthority", store)
    IN  [err |-> r.err, signer |-> signer, store |-> r.store]

\* Faulty caller: a signer other than the expected one is reported, but the
\* transaction is not reverted, so what verify wrote stays.
RequireSigner_NoRevert(store, signer, v) ==
    IF v.err # "none" THEN [err |-> v.err, recovered |-> v.signer, store |-> store]
    ELSE IF signer # v.signer
    THEN [err |-> "SignerMismatch", recovered |-> v.signer, store |-> v.store]
    ELSE [err |-> "none", recovered |-> v.signer, store |-> v.store]

\* Faulty caller: what verify wrote is not kept (verify run as a read-only call).
RequireSigner_NotPersisted(store, signer, v) ==
    IF v.err # "none" THEN [err |-> v.err, recovered |-> v.signer, store |-> store]
    ELSE IF signer # v.signer
    THEN [err |-> "SignerMismatch", recovered |-> v.signer, store |-> store]
    ELSE [err |-> "none", recovered |-> v.signer, store |-> store]

\* require(_signer == verify(...), "..."): v is what verify did on `store`.
\* A revert inside verify, or a signer other than _signer, reverts the
\* transaction: the store is the one before the transaction.
RequireSigner(store, signer, v) ==
    IF v.err # "none" THEN [err |-> v.err, recovered |-> v.signer, store |-> store]
    ELSE IF signer # v.signer
    THEN [err |-> "SignerMismatch", recovered |-> v.signer, store |-> store]
    ELSE [err |-> "none", recovered |-> v.signer, store |-> v.store]

\* verifyPublic(callData, replayProtection, authority, signer, signature) of
\* the wrapper: verify(), and "Not expected signer" unless it returns signer.
verifyPublic(callData, replayProtection, authority, signer, signature) ==
    LET v == verify(nonceStore, self, callData, replayProtection, authority, signature)
        r == RequireSigner(nonceStore, signer, v)
    IN  /\ ntx < MaxTx
        /\ self = WRAPPER
        /\ nonceStore' = r.store
        /\ accepted' = IF r.err = "none"
                        THEN Record(Consumption(signer, replayProtection, authority))
                        ELSE accepted
        /\ last' = Tx("verifyPublic", "-", callData, replayProtection, authority, signer,
                      signature, r.recovered, r.err, FALSE)
        /\ ntx' = ntx + 1
        /\ UNCHANGED <<self, calls, events, deployed, verifications>>

(*************************** RelayHub **************************************)
Targets == {"target"}
\* Call data: one function call, and the other one a signature may be for.
CallDatas == {<<"a9059cbb">>}
OtherCallData == <<"23b872dd">>
InitCodes == {<<"608060405234">>}

\* abi.encode(_target, _callData).
EncodeCallData(target, callData) == <<target>> \o callData

\* The meta-transaction a forward call presents.
MetaTx(target, callData, replayProtection, authority, signer, signature) ==
    <<target, callData, replayProtection, authority, signer, signature>>

\* Faulty forward: the result of verify is compared with _signer but not
\* required, and the target is called in either case.
forward_Ungated(target, callData, replayProtection, authority, signer, signature, success) ==
    LET encodedCallData == EncodeCallData(target, callData)
        v == verify(nonceStore, self, encodedCallData, replayProtection, authority, signature)
        r == RequireSigner(nonceStore, signer, v)
    IN  /\ ntx < MaxTx
        /\ self = RELAY_HUB
        /\ nonceStore' = r.store
        /\ accepted' = IF r.err = "none"
                        THEN Record(Consumption(signer, replayProtection, authority))
                        ELSE accepted
        /\ calls' = Append(calls, MetaTx(target, callData, replayProtection,
                                         authority, signer, signature))
        /\ events' = IF ~success THEN Append(events, <<"Revert">>) ELSE events
        /\ last' = Tx("forward", target, callData, replayProtection, authority, signer,
                      signature, r.recovered, r.err, success)
        /\ ntx' = ntx + 1
        /\ UNCHANGED <<self, deployed, verifications>>

\* Faulty forward: a failed target call reverts the transaction
\* (require(success)), which gives the replay protection back.
forward_RevertsWithTarget(target, callData, replayProtection, authority, signer, signature, success) ==
    LET encodedCallData == EncodeCallData(target, callData)
        v == verify(nonceStore, self, encodedCallData, replayProtection, authority, signature)
        r == RequireSigner(nonceStore, signer, v)
        err == IF r.err # "none" THEN r.err
               ELSE IF ~success THEN "TargetFailed"
               ELSE "none"
    IN  /\ ntx < MaxTx
        /\ self = RELAY_HUB
        /\ nonceStore' = IF err = "none" THEN r.store ELSE nonceStore
        /\ accepted' = IF err = "none"
                        THEN Record(Consumption(signer, replayProtection, authority))
                        ELSE accepted
        /\ calls' = IF err = "none"
                     THEN Append(calls, MetaTx(target, callData, replayProtection,
                                               authority, signer, signature))
                     ELSE calls
        /\ events' = events
        /\ last' = Tx("forward", target, callData, replayProtection, authority, signer,
                      signature, r.recovered, err, err = "none")
        /\ ntx' = ntx + 1
        /\ UNCHANGED <<self, deployed, verifications>>

\* forward(_target, _callData, _replayProtection, _replayProtectionAuthority,
\* _signer, _signature); success is what _target.call returns.
forward(target, callData, replayProtection, authority, signer, signature, success) ==
    LET encodedCallData == EncodeCallData(target, callData)
        v == verify(nonceStore, self, encodedCallData, replayProtection, authority, signature)
        r == RequireSigner(nonceStore, signer, v)
        called == r.err = "none"
    IN  /\ ntx < MaxTx
        /\ self = RELAY_HUB
        /\ nonceStore' = r.store
        /\ accepted' = IF called
                        THEN Record(Consumption(signer, replayProtection, authority))
                        ELSE accepted
        /\ calls' = IF called
                     THEN Append(calls, MetaTx(target, callData, replayProtection,
                                               authority, signer, signature))
                     ELSE calls
        /\ events' = IF called /\ ~success THEN Append(events, <<"Revert">>) ELSE events
        /\ last' = Tx("forward", target, callData, replayProtection, authority, signer,
                      signature, r.recovered, r.err, called /\ success)
        /\ ntx' = ntx + 1
        /\ UNCHANGED <<self, deployed, verifications>>

\* Create2: the address of the contract made from a salt and init code.
Create2Address(salt, initCode) == <<salt, initCode>>

\* Faulty deployContract: the replay protection it verified is not written
\* to the nonceStore forward reads.
deployContract_KeepsStore(initCode, replayProtection, authority, signer, signature) ==
    LET v == verify(nonceStore, self, initCode, replayProtection, authority, signature)
        r == RequireSigner(nonceStore, signer, v)
        addr == Create2Address(<<signer, replayProtection>>, initCode)
        err == IF r.err # "none" THEN r.err
               ELSE IF addr \in deployed THEN "Create2Failed"
               ELSE "none"
    IN  /\ ntx < MaxTx
        /\ self = RELAY_HUB
        /\ nonceStore' = nonceStore
        /\ accepted' = IF err = "none"
                        THEN Record(Consumption(signer, replayProtection, authority))
                        ELSE accepted
        /\ deployed' = IF err = "none" THEN deployed \cup {addr} ELSE deployed
        /\ events' = IF err = "none" THEN Append(events, <<"Deployed", signer, addr>>)
                     ELSE events
        /\ last' = Tx("deployContract", "-", initCode, replayProtection, authority, signer,
                      signature, r.recovered, err, FALSE)
        /\ ntx' = ntx + 1
        /\ UNCHANGED <<self, calls, verifications>>

\* deployContract(_initCode, _replayProtection, _replayProtectionAuthority,
\* _signer, _signature): Create2.deploy reverts when the address is taken.
deployContract(initCode, replayProtection, authority, signer, signature) ==
    LET v == verify(nonceStore, self, initCode, replayProtection, authority, signature)
        r == RequireSigner(nonceStore, signer, v)
        addr == Create2Address(<<signer, replayProtection>>, initCode)
        err == IF r.err # "none" THEN r.err
               ELSE IF addr \in deployed THEN "Create2Failed"
               ELSE "none"
    IN  /\ ntx < MaxTx
        /\ self = RELAY_HUB
        /\ nonceStore' = IF err = "none" THEN r.store ELSE nonceStore
        /\ accepted' = IF err = "none"
                        THEN Record(Consumption(signer, replayProtection, authority))
                        ELSE accepted
        /\ deployed' = IF err = "none" THEN deployed \cup {addr} ELSE deployed
        /\ events' = IF err = "none" THEN Append(events, <<"Deployed", signer, addr>>)
                     ELSE events
        /\ last' = Tx("deployContract", "-", initCode, replayProtection, authority, signer,
                      signature, r.recovered, err, FALSE)
        /\ ntx' = ntx + 1
        /\ UNCHANGED <<self, calls, verifications>>

\* The signature a signer makes to have the hub forward a call.
SignForward(signer, target, callData, replayProtection, authority) ==
    Sign(signer, Message(EncodeCallData(target, callData), replayProtection, authority,
                         RELAY_HUB, MAINNET))

\* The signature a signer makes to have the hub deploy a contract.
SignDeploy(signer, initCode, replayProtection, authority) ==
    Sign(signer, Message(initCode, replayProtection, authority, RELAY_HUB, MAINNET))

(*************************** specifications of verify and forward **********)
\* Values of the replay protections that are signed: 0 and the mask of bit 0.
PayloadValues == {0, flipBit(0, 0)}
\* The queue (or bitmap) the signed replay protections use.
SignedIndices == {0}

\* A signed call is verified on the wrapper, under any authority and for any
\* claimed signer.
CallVerify ==
    \E by \in Signers, X \in Authorities, i \in SignedIndices, n \in PayloadValues,
       Y \in Authorities, signer \in Addresses :
        LET sc == signCall(WRAPPER, X, by, i, n)
        IN  verifyPublic(sc.callData, sc.encodedReplayProtection, Y, signer, sc.signedCall)

NextVerify == CallVerify

SpecVerify == Init /\ [][NextVerify]_vars

\* The state after RelayHub was deployed.
InitHub ==
    /\ nonceStore = EmptyStore
    /\ self = RELAY_HUB
    /\ last = NoTx
    /\ accepted = NothingAccepted
    /\ calls = <<>>
    /\ events = <<>>
    /\ deployed = {}
    /\ ntx = 0
    /\ verifications = <<>>


\* A relayer forwards a call with a signature one of the signers made for
\* the hub, for the call data presented or for other call data.
CallForward ==
    \E by \in Signers, t \in Targets, cd \in CallDatas, i \in SignedIndices,
       n \in PayloadValues, a \in Authorities, signed \in CallDatas \cup {OtherCallData},
       signer \in Signers, success \in BOOLEAN :
        forward(t, cd, EncodeReplayProtection(i, n), a, signer,
                SignForward(by, t, signed, EncodeReplayProtection(i, n), a), success)

\* A relayer has the hub deploy a contract a signer signed for.
CallDeploy ==
    \E by \in Signers, code \in InitCodes, i \in SignedIndices, n \in PayloadValues,
       a \in Authorities, signer \in Signers :
        deployContract(code, EncodeReplayProtection(i, n), a, signer,
                       SignDeploy(by, code, EncodeReplayProtection(i, n), a))

NextHub == CallForward \/ CallDeploy

SpecHub == InitHub /\ [][NextHub]_vars

(*************************** vocabulary of the properties ******************)
\* Bit b of the word v.
Bit(v, b) == (v \div (2 ^ b)) % 2 = 1
BitPositions == 0 .. (BitmapWidth - 1)
Overlap(v, w) == \E b \in BitPositions : Bit(v, b) /\ Bit(w, b)
\* v is the bitwise OR of the words of S.
IsOrOf(v, S) == \A b \in BitPositions : Bit(v, b) <=> \E w \in S : Bit(w, b)
FullBitmap == 2 ^ BitmapWidth - 1

\* A transaction has just been executed: last' describes it.
Executed(op) == ntx' = ntx + 1 /\ last'.op = op
\* The slot the transaction last' worked on.
SlotOf(tx) == StoreIndex(tx.signer, tx.index, tx.authority)
\* The accepted consumptions of one slot, in a history h.
AcceptedOn(h, signer, index, authority) ==
    {e[1] : e \in {x \in h : x[1][1] = signer /\ x[1][2] = index /\ x[1][4] = authority}}
\* The word a consumption carried (its nonce or mask).
ValueOf(c) == c[3]
\* The consumptions accepted in a history.
Accepted(h) == {e[1] : e \in h}

(*************************** C2 ********************************************)
\* C2: a Multinonce consumption of nonce n on (signer, index) is accepted if
\* and only if n is the value stored at (signer, index, ZERO); accepted, the
\* stored value becomes n + 1; a smaller or larger n fails with
\* NonceOutOfOrder and leaves the stored value.
C2_MultinonceConsume ==
    [][Executed("noncePublic") =>
        LET k == SlotOf(last') IN
        /\ (last'.err = "none") <=> (last'.value = nonceStore[k])
        /\ last'.err = "none" => nonceStore'[k] = last'.value + 1
        /\ last'.value # nonceStore[k] =>
              last'.err = "NonceOutOfOrder" /\ nonceStore'[k] = nonceStore[k]]_vars

\* Fresh queue 0 of admin: nonce 0 accepted, one call rejected, nonce 1
\* accepted, and the stored value is 2.
C2_Witness ==
    /\ ntx = 3
    /\ last.op = "noncePublic" /\ last.signer = "admin" /\ last.index = 0
    /\ last.value = 1 /\ last.err = "none"
    /\ nonceStore[StoreIndex("admin", 0, AddressZero)] = 2
    /\ Accepted(accepted) = {<<"admin", 0, 0, AddressZero>>, <<"admin", 0, 1, AddressZero>>}

(*************************** C3 ********************************************)
\* C3: a Multinonce consumption on queue A of a signer, accepted or
\* rejected, leaves the stored value of every other queue B of that signer,
\* and nonce 0 is accepted on a queue that stores 0 however far the other
\* queues have advanced.
C3_QueueIndependence ==
    [][Executed("noncePublic") =>
        /\ \A B \in Indices \ {last'.index} :
              nonceStore'[StoreIndex(last'.signer, B, AddressZero)]
                = nonceStore[StoreIndex(last'.signer, B, AddressZero)]
        /\ (last'.value = 0 /\ AcceptedOn(accepted, last'.signer, last'.index, AddressZero) = {})
              => last'.err = "none"]_vars

\* Queue 0 of admin stands at 2 when queue 6175 is advanced from 0 to 1.
C3_Witness ==
    /\ last.op = "noncePublic" /\ last.signer = "admin" /\ last.index = 6175
    /\ last.value = 0 /\ last.err = "none"
    /\ nonceStore[StoreIndex("admin", 0, AddressZero)] = 2
    /\ nonceStore[StoreIndex("admin", 6175, AddressZero)] = 1

(*************************** C4 ********************************************)
\* C4: a Bitflip consumption of a mask on (signer, index) is accepted if and
\* only if the mask is not 0 and shares no bit with the value stored at
\* (signer, index, ONE); accepted, the stored value becomes old OR mask.
C4_BitflipConsume ==
    [][Executed("bitflipPublic") =>
        LET k == SlotOf(last') IN
        /\ (last'.err = "none") <=> (last'.value # 0 /\ ~Overlap(last'.value, nonceStore[k]))
        /\ last'.err = "none" => IsOrOf(nonceStore'[k], {nonceStore[k], last'.value})
        /\ last'.err # "none" => nonceStore'[k] = nonceStore[k]]_vars

\* A second mask accepted on a bitmap that already holds another bit.
C4_Witness ==
    /\ last.op = "bitflipPublic" /\ last.err = "none" /\ last.value = 2
    /\ nonceStore[SlotOf(last)] = 3

(*************************** C5 ********************************************)
\* C5: once a bit was set for (signer, index) by an accepted Bitflip
\* consumption, every later consumption on (signer, index) whose mask
\* holds that bit is rejected with BitAlreadyUsed and changes nothing,
\* whatever was executed in between and whatever other bits the mask holds.
C5_BitflipNoReuse ==
    [][(/\ Executed("bitflipPublic")
        /\ \E c \in AcceptedOn(accepted, last'.signer, last'.index, AddressOne) :
              Overlap(ValueOf(c), last'.value))
        => (last'.err = "BitAlreadyUsed" /\ nonceStore' = nonceStore)]_vars

\* Bit 0 of a bitmap of admin was flipped, another transaction followed,
\* and a mask holding bit 0 and the unused bit 1 is rejected.
C5_Witness ==
    /\ ntx = 3
    /\ last.op = "bitflipPublic" /\ last.signer = "admin" /\ last.value = 3
    /\ last.err = "BitAlreadyUsed"
    /\ nonceStore[SlotOf(last)] = 1
    /\ \E c \in Accepted(accepted) : c[1] # "admin"

(*************************** C6 ********************************************)
\* C6: a Bitflip consumption with mask 0 is rejected with NoBitsToFlip,
\* never with BitAlreadyUsed, whether the bitmap is empty, partly used or
\* completely used.
C6_BitflipNonZero ==
    (last.op = "bitflipPublic" /\ last.value = 0) => last.err = "NoBitsToFlip"

\* Mask 0 rejected on a completely used bitmap.
C6_Witness ==
    /\ last.op = "bitflipPublic" /\ last.value = 0 /\ last.err = "NoBitsToFlip"
    /\ nonceStore[SlotOf(last)] = FullBitmap

\* Mask 0 rejected on a partly used bitmap.
C6_WitnessPartly ==
    /\ last.op = "bitflipPublic" /\ last.value = 0 /\ last.err = "NoBitsToFlip"
    /\ nonceStore[SlotOf(last)] = 1

(*************************** C7 ********************************************)
\* C7: a non-zero mask that shares no bit with the masks accepted before on
\* the same (signer, index) is accepted, and the stored value is then the
\* bitwise OR of all the masks accepted on (signer, index): the same value
\* for every order of submission.
C7_BitflipAccumulation ==
    [][(/\ Executed("bitflipPublic")
        /\ last'.value # 0
        /\ \A c \in AcceptedOn(accepted, last'.signer, last'.index, AddressOne) :
              ~Overlap(ValueOf(c), last'.value))
        => /\ last'.err = "none"
           /\ IsOrOf(nonceStore'[SlotOf(last')],
                     {ValueOf(c) : c \in AcceptedOn(accepted', last'.signer, last'.index, AddressOne)})]_vars

\* The masks 2 and 1 accepted in this order on one bitmap, which holds 3.
C7_Witness ==
    /\ last.op = "bitflipPublic" /\ last.err = "none" /\ last.value = 1
    /\ TimesAccepted(accepted, <<last.signer, last.index, 2, AddressOne>>) = 1
    /\ nonceStore[SlotOf(last)] = 3

\* The same masks accepted in the other order, with the same stored value.
C7_WitnessOtherOrder ==
    /\ last.op = "bitflipPublic" /\ last.err = "none" /\ last.value = 2
    /\ TimesAccepted(accepted, <<last.signer, last.index, 1, AddressOne>>) = 1
    /\ nonceStore[SlotOf(last)] = 3

(*************************** C1 ********************************************)
\* What identifies a signed meta-transaction: call data, replay protection,
\* authority, signer and signature.
Identity(metaTx) == <<metaTx[2], metaTx[3], metaTx[4], metaTx[5], metaTx[6]>>

\* C1: whatever forward calls are made, by whom and how often, the target
\* call of one signed meta-transaction is made at most once, under
\* Multinonce and under Bitflip.
C1_ExecutedAtMostOnce ==
    \A i, j \in 1 .. Len(calls) : Identity(calls[i]) = Identity(calls[j]) => i = j

\* A Multinonce meta-transaction whose call was made is forwarded again and
\* rejected.
C1_Witness ==
    /\ last.op = "forward" /\ last.authority = AddressZero
    /\ last.err = "NonceOutOfOrder"
    /\ \E i \in 1 .. Len(calls) :
          calls[i] = MetaTx(last.target, last.callData, <<last.index, last.value>>,
                            last.authority, last.signer, last.signature)

\* A Bitflip meta-transaction whose call was made is forwarded again and
\* rejected.
C1_WitnessBitflip ==
    /\ last.op = "forward" /\ last.authority = AddressOne
    /\ last.err = "BitAlreadyUsed"
    /\ \E i \in 1 .. Len(calls) :
          calls[i] = MetaTx(last.target, last.callData, <<last.index, last.value>>,
                            last.authority, last.signer, last.signature)

(*************************** C8 ********************************************)
Failures == {"SignerMismatch", "NonceOutOfOrder", "NoBitsToFlip", "BitAlreadyUsed",
             "UnknownAuthority"}

\* C8: a transaction whose verification fails, for whatever reason, leaves
\* every entry of nonceStore as it was before the transaction.
C8_FailureChangesNothing ==
    [][(ntx' = ntx + 1 /\ last'.err # "none") => nonceStore' = nonceStore]_vars

\* A used bit is flipped a second time: rejected, and the bitmap still holds
\* that bit alone.
C8_Witness ==
    /\ last.err = "BitAlreadyUsed" /\ last.value = 1
    /\ nonceStore[StoreIndex(last.recovered, last.index, AddressOne)] = 1

\* A signature of another signer than the claimed one, whose replay
\* protection verify accepted: rejected, and the store is still empty.
C8_WitnessSignerMismatch ==
    /\ last.err = "SignerMismatch" /\ last.recovered \in Signers
    /\ nonceStore = EmptyStore

\* Each of the five failures happens.
C8_WitnessNonceOutOfOrder == last.err = "NonceOutOfOrder"
C8_WitnessNoBitsToFlip == last.err = "NoBitsToFlip"
C8_WitnessUnknownAuthority == last.err = "UnknownAuthority"

(*************************** C9 ********************************************)
Verifying == {"verifyPublic", "forward", "deployContract"}

\* C9: of two verifications that present the same valid Multinonce value for
\* the same (signer, index), executed one after the other in either
\* order, the first succeeds and the second fails with NonceOutOfOrder; the
\* counter stands one above the presented value; and no consumption is
\* ever accepted twice.
C9_OneOfTwoSucceeds ==
    [][/\ \A e \in accepted' : e[2] = 1
       /\ (/\ last.op \in Verifying /\ last.err = "none" /\ last.authority = AddressZero
           /\ ntx' = ntx + 1
           /\ last'.op \in Verifying /\ last'.authority = AddressZero
           /\ last'.recovered = last.signer
           /\ last'.index = last.index /\ last'.value = last.value)
          => /\ last'.err = "NonceOutOfOrder"
             /\ nonceStore'[StoreIndex(last.signer, last.index, AddressZero)] = last.value + 1
             /\ nonceStore' = nonceStore]_vars

\* Two relayers forwarded the same signed call: the second is rejected.
C9_Witness ==
    /\ ntx = 2
    /\ last.op = "forward" /\ last.authority = AddressZero
    /\ last.recovered = last.signer /\ last.err = "NonceOutOfOrder"
    /\ Len(calls) = 1 /\ calls[1][5] = last.signer /\ calls[1][6] = last.signature
    /\ nonceStore[StoreIndex(last.signer, last.index, AddressZero)] = last.value + 1

(*************************** C10 *******************************************)
\* The signature of the transaction was made by the claimed signer over the
\* message of the transaction, but for another authority.
SignedForOtherAuthority(tx) ==
    /\ SignedBy(tx.signature) = tx.signer
    /\ SignedMessage(tx.signature)[1] = tx.callData
    /\ SignedMessage(tx.signature)[2] = <<tx.index, tx.value>>
    /\ SignedMessage(tx.signature)[3] # tx.authority

\* The values stored for a signer are the same after the step.
StoredValuesKept(signer) ==
    \A i \in Indices, a \in {AddressZero, AddressOne} :
        nonceStore'[StoreIndex(signer, i, a)] = nonceStore[StoreIndex(signer, i, a)]

C10_WitnessStrategyError ==
    /\ last.op = "verifyPublic" /\ SignedForOtherAuthority(last)
    /\ last.authority = AddressZero /\ last.err = "NonceOutOfOrder"

(*************************** C11 *******************************************)
\* The signature a signer makes to have a contract on some chain forward a
\* call: the verifying contract and the chain id are part of the message.
SignForwardFor(signer, target, callData, replayProtection, authority, contract, chainId) ==
    Sign(signer, Message(EncodeCallData(target, callData), replayProtection, authority,
                         contract, chainId))

\* A relayer forwards a call through the hub with a signature a signer made
\* for the hub or for the wrapper, for mainnet or for ropsten, over the call
\* data presented or over other call data; the target call succeeds.
CallForwardSignedFor ==
    \E by \in Signers, t \in Targets, cd \in CallDatas, i \in SignedIndices,
       n \in PayloadValues, a \in Authorities, signed \in CallDatas \cup {OtherCallData},
       contract \in {RELAY_HUB, WRAPPER}, chainId \in {MAINNET, ROPSTEN},
       signer \in Signers :
        forward(t, cd, EncodeReplayProtection(i, n), a, signer,
                SignForwardFor(by, t, signed, EncodeReplayProtection(i, n), a,
                               contract, chainId),
                TRUE)

NextReplay == CallForwardSignedFor

SpecReplay == InitHub /\ [][NextReplay]_vars

\* What the signature of a transaction was made over.
SignedCallData(tx) == SignedMessage(tx.signature)[1]
SignedContract(tx) == SignedMessage(tx.signature)[4]
SignedChainId(tx) == SignedMessage(tx.signature)[5]

\* The signature of the transaction was made for another contract, for
\* another chain or over other call data than the hub verifies.
SignedForElsewhere(tx) ==
    \/ SignedContract(tx) # RELAY_HUB
    \/ SignedChainId(tx) # MAINNET
    \/ SignedCallData(tx) # EncodeCallData(tx.target, tx.callData)

\* C11: a signature made over (callData, replayProtection, authority,
\* contract C, chain N) is never accepted for a claimed signer by the hub
\* when the hub is not C, when its chain is not N, or when the call data
\* presented is not the signed call data: the transaction fails, the target
\* is not called and nothing is consumed.
C11_NoForeignReplay ==
    [][(/\ Executed("forward")
        /\ last'.signer \in Signers
        /\ SignedForElsewhere(last'))
        => /\ last'.err # "none"
           /\ calls' = calls
           /\ nonceStore' = nonceStore]_vars

\* Cross-contract: signed by the claimed signer for the wrapper, presented to
\* the hub; everything else is as signed.
C11_Witness ==
    /\ last.op = "forward" /\ SignedBy(last.signature) = last.signer
    /\ SignedContract(last) = WRAPPER /\ self = RELAY_HUB
    /\ SignedChainId(last) = MAINNET
    /\ SignedCallData(last) = EncodeCallData(last.target, last.callData)
    /\ last.err = "SignerMismatch"

\* Cross-chain: signed by the claimed signer for the hub on ropsten.
C11_WitnessChain ==
    /\ last.op = "forward" /\ SignedBy(last.signature) = last.signer
    /\ SignedContract(last) = RELAY_HUB /\ SignedChainId(last) = ROPSTEN
    /\ SignedCallData(last) = EncodeCallData(last.target, last.callData)
    /\ last.err = "SignerMismatch"

\* Other call data: signed by the claimed signer for the hub on mainnet.
C11_WitnessCallData ==
    /\ last.op = "forward" /\ SignedBy(last.signature) = last.signer
    /\ SignedContract(last) = RELAY_HUB /\ SignedChainId(last) = MAINNET
    /\ SignedCallData(last) = EncodeCallData(last.target, OtherCallData)
    /\ last.callData # OtherCallData
    /\ last.err = "SignerMismatch"

\* The same call signed for the hub on mainnet is accepted.
C11_WitnessAccepted ==
    /\ last.op = "forward" /\ ~SignedForElsewhere(last) /\ last.err = "none"

(*************************** C12 *******************************************)
\* The signature of the transaction was made by the claimed signer over
\* exactly the message the verifier rebuilds.
CorrectlySigned(tx, this) ==
    tx.signature = Sign(tx.signer, Message(tx.callData, <<tx.index, tx.value>>,
                                            tx.authority, this, MAINNET))

C12_WitnessUsedStore ==
    /\ last.op = "verifyPublic" /\ last.authority = AddressCustom
    /\ CorrectlySigned(last, WRAPPER)
    /\ last.err = "UnknownAuthority"
    /\ nonceStore[StoreIndex(last.signer, last.index, AddressZero)] = 1

(*************************** C13 *******************************************)
\* The transaction was signed by its claimed signer for the hub, over the
\* call and the replay protection it presents.
SignedAsPresented(tx) ==
    tx.signature = SignForward(tx.signer, tx.target, tx.callData,
                               <<tx.index, tx.value>>, tx.authority)

\* The meta-transaction a forward transaction presented.
Forwarded(tx) ==
    MetaTx(tx.target, tx.callData, <<tx.index, tx.value>>, tx.authority, tx.signer,
           tx.signature)

\* C13: forward calls the target only when verify succeeded for the given
\* signer, that is for a call the signer signed as presented and whose
\* replay protection was consumed in this transaction; when verification
\* fails, the target is not called and nonceStore is not changed.
C13_ForwardGated ==
    [][Executed("forward")
        => /\ (calls' # calls)
                => /\ last'.err = "none"
                   /\ last'.recovered = last'.signer
                   /\ SignedAsPresented(last')
                   /\ calls' = Append(calls, Forwarded(last'))
                   /\ nonceStore'[SlotOf(last')] # nonceStore[SlotOf(last')]
           /\ (last'.err # "none")
                => /\ calls' = calls
                   /\ events' = events
                   /\ nonceStore' = nonceStore]_vars

\* A correctly signed call was forwarded: the target was called once and the
\* nonce is consumed.
C13_Witness ==
    /\ last.op = "forward" /\ last.err = "none" /\ SignedAsPresented(last)
    /\ Len(calls) = 1 /\ calls[1] = Forwarded(last)
    /\ nonceStore[SlotOf(last)] # 0

\* A call signed by another wallet than the claimed signer: no target call.
C13_WitnessWrongSigner ==
    /\ ntx = 1 /\ last.op = "forward" /\ last.err = "SignerMismatch"
    /\ SignedBy(last.signature) \in Signers \ {last.signer}
    /\ calls = <<>> /\ nonceStore = EmptyStore

\* A signature over other call data than presented: no target call.
C13_WitnessBadSignature ==
    /\ ntx = 1 /\ last.op = "forward" /\ last.err = "SignerMismatch"
    /\ SignedBy(last.signature) = last.signer /\ last.recovered = Unowned
    /\ calls = <<>> /\ nonceStore = EmptyStore

\* A replay of a forwarded call: rejected by the strategy, no second call.
C13_WitnessReplay ==
    /\ ntx = 2 /\ last.op = "forward" /\ SignedAsPresented(last)
    /\ last.err \in {"NonceOutOfOrder", "BitAlreadyUsed"}
    /\ Len(calls) = 1 /\ calls[1] = Forwarded(last)

(*************************** C14 *******************************************)
\* The signer recovered from the signature of the transaction is not the
\* claimed signer.
RecoveredOther(tx) == tx.recovered # tx.signer

\* What the strategy of the transaction's authority answers for the signer
\* recovered from its signature, on the store s.
DispatchAnswer(s, tx) ==
    LET stored == s[StoreIndex(tx.recovered, tx.index, tx.authority)]
    IN  IF tx.authority = AddressZero
        THEN (IF tx.value = stored THEN "none" ELSE "NonceOutOfOrder")
        ELSE IF tx.authority = AddressOne
        THEN (IF tx.value = 0 THEN "NoBitsToFlip"
              ELSE IF Overlap(tx.value, stored) THEN "BitAlreadyUsed"
              ELSE "none")
        ELSE "UnknownAuthority"

\* C14 as stated: when the recovered signer is not the claimed signer, the
\* verification fails with SignerMismatch whatever the payload and the store
\* hold, and nothing is consumed for any signer.
C14_AsStated ==
    [][(Executed("verifyPublic") /\ RecoveredOther(last'))
        => /\ last'.err = "SignerMismatch"
           /\ nonceStore' = nonceStore]_vars

\* C14, amended: when the recovered signer is not the claimed signer, the
\* verification fails and nothing stays consumed for any signer; it fails
\* with SignerMismatch unless the dispatch for the recovered signer fails
\* first, and then with the error of that dispatch.
C14_SignerCheckedAfterDispatch ==
    [][(Executed("verifyPublic") /\ RecoveredOther(last'))
        => /\ last'.err = (IF DispatchAnswer(nonceStore, last') = "none"
                           THEN "SignerMismatch"
                           ELSE DispatchAnswer(nonceStore, last'))
           /\ nonceStore' = nonceStore
           /\ accepted' = accepted]_vars

\* Another wallet's signature, with a replay protection its strategy
\* accepts: SignerMismatch, and nothing consumed for either wallet.
C14_Witness ==
    /\ last.op = "verifyPublic" /\ RecoveredOther(last)
    /\ last.recovered \in Signers /\ last.signer \in Signers
    /\ last.err = "SignerMismatch"
    /\ nonceStore = EmptyStore

\* Another wallet's signature with a nonce that is out of order for that
\* wallet: the strategy's error comes first.
C14_WitnessStrategyFirst ==
    /\ last.op = "verifyPublic" /\ RecoveredOther(last)
    /\ last.recovered \in Signers /\ last.signer \in Signers
    /\ last.authority = AddressZero /\ last.err = "NonceOutOfOrder"

(*************************** C15 *******************************************)
\* The number of consumptions accepted so far on one key.
NumAccepted(h, signer, index, authority) ==
    Cardinality({x \in h : x[1][1] = signer /\ x[1][2] = index /\ x[1][4] = authority})

\* The stored nonce of every queue is the number of consumptions accepted
\* on that queue.
CounterCountsAccepted ==
    \A s \in Signers, i \in Indices :
        nonceStore[StoreIndex(s, i, AddressZero)] = NumAccepted(accepted, s, i, AddressZero)

\* The stored nonce of every queue stays or goes up by one.
CounterStep ==
    \A s \in Signers, i \in Indices :
        nonceStore'[StoreIndex(s, i, AddressZero)]
            \in {nonceStore[StoreIndex(s, i, AddressZero)],
                 nonceStore[StoreIndex(s, i, AddressZero)] + 1}

\* C15: the nonce stored at (signer, index, ZERO) is always the number of
\* Multinonce consumptions accepted on that key; it is 0 before the first
\* transaction, it never decreases and it never skips a value.
C15_CounterInvariant ==
    /\ [](CounterCountsAccepted)
    /\ [](ntx = 0 => \A s \in Signers, i \in Indices :
                        nonceStore[StoreIndex(s, i, AddressZero)] = 0)
    /\ [][CounterStep]_vars

\* Three consumptions were accepted on one queue, which now stores 3, while
\* the other queue of the signer still stores 0.
C15_Witness ==
    /\ ntx = 3
    /\ nonceStore[StoreIndex("admin", 0, AddressZero)] = 3
    /\ NumAccepted(accepted, "admin", 0, AddressZero) = 3
    /\ nonceStore[StoreIndex("admin", 6175, AddressZero)] = 0

\* An out-of-order nonce was refused in between: the counter did not move.
C15_WitnessRefused ==
    /\ ntx = 3 /\ last.op = "noncePublic" /\ last.err = "NonceOutOfOrder"
    /\ nonceStore[SlotOf(last)] = 2
    /\ NumAccepted(accepted, last.signer, last.index, AddressZero) = 2

(*************************** C16 *******************************************)
\* The masks accepted so far on one bitmap.
MasksAccepted(h, signer, index) ==
    {ValueOf(c) : c \in AcceptedOn(h, signer, index, AddressOne)}

\* No bit of a bitmap goes from 1 to 0.
BitsKept ==
    \A s \in Signers, i \in Indices, b \in BitPositions :
        Bit(nonceStore[StoreIndex(s, i, AddressOne)], b)
            => Bit(nonceStore'[StoreIndex(s, i, AddressOne)], b)

\* Every bitmap is the OR of the masks accepted on it.
BitmapIsOrOfAccepted ==
    \A s \in Signers, i \in Indices :
        /\ nonceStore[StoreIndex(s, i, AddressOne)] \in Values
        /\ IsOrOf(nonceStore[StoreIndex(s, i, AddressOne)], MasksAccepted(accepted, s, i))

\* C16: in every step each bit of a value stored under authority ONE stays
\* or goes from 0 to 1, never from 1 to 0, and the stored value is always
\* the OR of the masks accepted so far on its key.
C16_BitmapMonotone ==
    /\ [][BitsKept]_vars
    /\ [](BitmapIsOrOfAccepted)

\* Two masks were accepted on one bitmap, a third one that holds a used bit
\* was refused: the bitmap holds the bits of the two.
C16_Witness ==
    /\ ntx = 3 /\ last.op = "bitflipPublic" /\ last.err = "BitAlreadyUsed"
    /\ MasksAccepted(accepted, last.signer, last.index) = {1, 2}
    /\ nonceStore[SlotOf(last)] = 3

\* Multinonce consumptions of the same signer and index in between leave
\* the bitmap alone.
C16_WitnessBesideNonce ==
    /\ ntx = 3 /\ last.op = "noncePublic" /\ last.err = "none" /\ last.value = 1
    /\ nonceStore[StoreIndex(last.signer, last.index, AddressOne)] = 1
    /\ MasksAccepted(accepted, last.signer, last.index) = {1}

(*************************** C17 *******************************************)
\* A verification request: the signer signs the replay protection
\* (index, value) for an authority and is the claimed signer.
Requests ==
    {<<s, i, n, a>> : s \in Signers, i \in Indices, n \in PayloadValues,
                      a \in {AddressZero, AddressOne}}

\* What verifyPublic does with a request on the store s.
Verified(s, q) ==
    LET sc == signCall(WRAPPER, q[4], q[1], q[2], q[3])
    IN  RequireSigner(s, q[1],
                      verify(s, WRAPPER, sc.callData, sc.encodedReplayProtection, q[4],
                             sc.signedCall))

\* The keys of two requests differ in signer, index or authority.
IndependentKeys(p, q) == p[1] # q[1] \/ p[2] # q[2] \/ p[4] # q[4]

\* From the store s, p then q and q then p give each request the outcome it
\* has alone and give the same store.
Commute(s, p, q) ==
    LET alonep == Verified(s, p)
        aloneq == Verified(s, q)
        pq == Verified(alonep.store, q)
        qp == Verified(aloneq.store, p)
    IN  /\ pq.err = aloneq.err
        /\ qp.err = alonep.err
        /\ pq.store = qp.store

\* In every reachable store, requests on independent keys commute.
IndependentKeysCommute ==
    \A p \in Requests, q \in Requests :
        IndependentKeys(p, q) => Commute(nonceStore, p, q)

\* A verification changes no value but the one of its own key.
OnlyOwnKeyChanges ==
    Executed("verifyPublic")
        => \A s \in Addresses, i \in Indices, a \in {AddressZero, AddressOne} :
              (s # last'.signer \/ i # last'.index \/ a # last'.authority)
                  => nonceStore'[StoreIndex(s, i, a)] = nonceStore[StoreIndex(s, i, a)]

\* C17: two verifications whose keys differ in signer, index or authority
\* have the same outcomes and give the same store in either order; a
\* verification changes the value of its own key only, so a Multinonce
\* consumption on (signer, index, ZERO) leaves (signer, index, ONE) alone
\* and the same index of two signers is never shared.
C17_IndependentKeysCommute ==
    /\ [](IndependentKeysCommute)
    /\ [][OnlyOwnKeyChanges]_vars

\* Nonce 0 and then the mask of bit 0 were accepted for the same signer and
\* index: both values are stored, each under its authority.
C17_Witness ==
    /\ ntx = 2 /\ last.op = "verifyPublic" /\ last.err = "none"
    /\ last.authority = AddressOne /\ last.value = 1
    /\ nonceStore[StoreIndex(last.signer, last.index, AddressZero)] = 1
    /\ nonceStore[StoreIndex(last.signer, last.index, AddressOne)] = 1

\* The same two in the other order: the same store.
C17_WitnessOtherOrder ==
    /\ ntx = 2 /\ last.op = "verifyPublic" /\ last.err = "none"
    /\ last.authority = AddressZero /\ last.value = 0
    /\ nonceStore[StoreIndex(last.signer, last.index, AddressZero)] = 1
    /\ nonceStore[StoreIndex(last.signer, last.index, AddressOne)] = 1

\* Nonce 0 accepted on the same queue for both signers.
C17_WitnessTwoSigners ==
    /\ ntx = 2 /\ last.op = "verifyPublic" /\ last.err = "none"
    /\ \A s \in Signers : nonceStore[StoreIndex(s, 0, AddressZero)] = 1

(*************************** C18 *******************************************)
\* forward followed statement by statement.  A transaction runs alone, so a
\* verification begins only when no other one is on its way, and what it
\* writes becomes the store when the transaction ends without a revert.
Terminal == {"Committed", "Rejected"}
InProgress ==
    Len(verifications) > 0 /\ verifications[Len(verifications)] \notin Terminal
Phase == verifications[Len(verifications)]
Advance(phase) == [verifications EXCEPT ![Len(verifications)] = phase]

\* forward is called; abi.encode(_target, _callData) and the replay
\* protection are at hand.
forwardDecode(target, callData, replayProtection, authority, signer, signature) ==
    /\ ntx < MaxTx
    /\ self = RELAY_HUB
    /\ ~InProgress
    /\ verifications' = Append(verifications, "Decoded")
    /\ last' = Tx("forward", target, callData, replayProtection, authority, signer,
                  signature, "-", "pending", FALSE)
    /\ UNCHANGED <<nonceStore, self, accepted, calls, events, deployed, ntx>>

\* verify recovers the signer of the message.
verifyRecover ==
    /\ InProgress /\ Phase = "Decoded"
    /\ verifications' = Advance("SignatureChecked")
    /\ last' = [last EXCEPT !.recovered =
                    Recover(Message(EncodeCallData(last.target, last.callData),
                                    EncodeReplayProtection(last.index, last.value),
                                    last.authority, self, MAINNET),
                            last.signature)]
    /\ UNCHANGED <<nonceStore, self, accepted, calls, events, deployed, ntx>>

\* verify hands the replay protection to the strategy of the authority.
verifyDispatch ==
    /\ InProgress /\ Phase = "SignatureChecked"
    /\ verifications' = Advance("StrategyDispatched")
    /\ UNCHANGED <<nonceStore, self, last, accepted, calls, events, deployed, ntx>>

\* Faulty end of forward: a refused verification is dispatched again.
forwardRequire_Retries(success) ==
    LET rp == EncodeReplayProtection(last.index, last.value)
        v == verify(nonceStore, self, EncodeCallData(last.target, last.callData), rp,
                    last.authority, last.signature)
        r == RequireSigner(nonceStore, last.signer, v)
        called == r.err = "none"
    IN  /\ InProgress /\ Phase = "StrategyDispatched"
        /\ verifications' = Advance(IF called THEN "Committed" ELSE "SignatureChecked")
        /\ nonceStore' = r.store
        /\ accepted' = IF called THEN Record(Consumption(last.signer, rp, last.authority))
                        ELSE accepted
        /\ calls' = IF called THEN Append(calls, MetaTx(last.target, last.callData, rp,
                                                       last.authority, last.signer,
                                                       last.signature))
                     ELSE calls
        /\ events' = IF called /\ ~success THEN Append(events, <<"Revert">>) ELSE events
        /\ last' = IF called
                   THEN [last EXCEPT !.recovered = r.recovered, !.err = r.err,
                                     !.success = success]
                   ELSE last
        /\ ntx' = IF called THEN ntx + 1 ELSE ntx
        /\ UNCHANGED <<self, deployed>>

\* The require on what verify returned, and the rest of forward: the
\* transaction ends, reverted or with the target called.
forwardRequire(success) ==
    LET rp == EncodeReplayProtection(last.index, last.value)
        v == verify(nonceStore, self, EncodeCallData(last.target, last.callData), rp,
                    last.authority, last.signature)
        r == RequireSigner(nonceStore, last.signer, v)
        called == r.err = "none"
    IN  /\ InProgress /\ Phase = "StrategyDispatched"
        /\ verifications' = Advance(IF called THEN "Committed" ELSE "Rejected")
        /\ nonceStore' = r.store
        /\ accepted' = IF called THEN Record(Consumption(last.signer, rp, last.authority))
                        ELSE accepted
        /\ calls' = IF called THEN Append(calls, MetaTx(last.target, last.callData, rp,
                                                       last.authority, last.signer,
                                                       last.signature))
                     ELSE calls
        /\ events' = IF called /\ ~success THEN Append(events, <<"Revert">>) ELSE events
        /\ last' = [last EXCEPT !.recovered = r.recovered, !.err = r.err,
                                !.success = called /\ success]
        /\ ntx' = ntx + 1
        /\ UNCHANGED <<self, deployed>>

\* A relayer forwards a call one of the wallets signed for the hub, with
\* that wallet or the other one as the claimed signer.
CallForwardDecode ==
    \E by \in Signers, t \in Targets, cd \in CallDatas, i \in SignedIndices,
       n \in PayloadValues, a \in Authorities, signer \in Signers :
        forwardDecode(t, cd, EncodeReplayProtection(i, n), a, signer,
                      SignForward(by, t, cd, EncodeReplayProtection(i, n), a))

CallForwardRequire == \E success \in BOOLEAN : forwardRequire(success)

NextPass == CallForwardDecode \/ verifyRecover \/ verifyDispatch \/ CallForwardRequire

\* A transaction that began runs to its end.
SpecPass ==
    /\ InitHub
    /\ [][NextPass]_vars
    /\ WF_vars(verifyRecover)
    /\ WF_vars(verifyDispatch)
    /\ WF_vars(CallForwardRequire)

\* The steps of one verification: forward, one phase at a time.
PhaseSteps ==
    {<<"Decoded", "SignatureChecked">>, <<"SignatureChecked", "StrategyDispatched">>,
     <<"StrategyDispatched", "Committed">>, <<"StrategyDispatched", "Rejected">>}

\* Every verification keeps its phase or takes one step forward, and a new
\* verification begins as Decoded.
ForwardPass ==
    /\ Len(verifications') \in {Len(verifications), Len(verifications) + 1}
    /\ \A k \in 1 .. Len(verifications) :
          \/ verifications'[k] = verifications[k]
          \/ <<verifications[k], verifications'[k]>> \in PhaseSteps
    /\ Len(verifications') > Len(verifications)
          => verifications'[Len(verifications')] = "Decoded"

\* A verification that is Rejected stays Rejected, and the step that
\* rejected it left the store and the calls made as they were.
RejectedIsFinal ==
    \A k \in 1 .. Len(verifications) :
        /\ verifications[k] = "Rejected" => verifications'[k] = "Rejected"
        /\ (verifications[k] # "Rejected" /\ verifications'[k] = "Rejected")
              => nonceStore' = nonceStore /\ calls' = calls

\* The k-th verification has come to its end.
Ended(k) == Len(verifications) >= k /\ verifications[k] \in Terminal

\* C18: every verification is one forward pass Decoded, SignatureChecked,
\* StrategyDispatched, then Committed or Rejected: each verification that
\* began comes to Committed or Rejected, no verification goes back to an
\* earlier phase, and a Rejected verification stays Rejected: it is not run
\* again on the store later transactions changed and never becomes Committed.
C18_SingleForwardPass ==
    /\ \A k \in 1 .. (MaxTx + 1) : (Len(verifications) >= k) ~> Ended(k)
    /\ [][ForwardPass]_vars
    /\ [][RejectedIsFinal]_vars

\* Nonce 1 was refused on the fresh queue; nonce 0 and then nonce 1,
\* submitted anew, were accepted: the first verification is still Rejected.
C18_Witness ==
    /\ verifications = <<"Rejected", "Committed", "Committed">>
    /\ last.authority = AddressZero /\ last.value = 1 /\ last.err = "none"
    /\ nonceStore[SlotOf(last)] = 2
    /\ Len(calls) = 2

\* A verification on its way, after a rejected one.
C18_WitnessOnItsWay ==
    /\ verifications = <<"Rejected", "StrategyDispatched">>
    /\ last.err = "pending" /\ last.recovered = last.signer

(*************************** C19 *******************************************)
\* No bitmap has more accepted consumptions than it has bits.
CapacityBounded ==
    \A s \in Signers, i \in Indices :
        NumAccepted(accepted, s, i, AddressOne) <= BitmapWidth

\* Every bit of the bitmap (signer, index) was consumed by an accepted mask.
AllBitsUsed(h, signer, index) == IsOrOf(FullBitmap, MasksAccepted(h, signer, index))

\* A consumption on a bitmap whose bits are all used is rejected.
FullBitmapRejects ==
    (Executed("bitflipPublic") /\ AllBitsUsed(accepted, last'.signer, last'.index))
        => /\ last'.err \in {"BitAlreadyUsed", "NoBitsToFlip"}
           /\ nonceStore' = nonceStore

\* A mask with a bit is accepted on an unused bitmap of a signer while
\* another bitmap of that signer is full.
OtherIndexAccepts ==
    (/\ Executed("bitflipPublic")
     /\ last'.value # 0
     /\ MasksAccepted(accepted, last'.signer, last'.index) = {}
     /\ \E i \in Indices \ {last'.index} : AllBitsUsed(accepted, last'.signer, i))
        => last'.err = "none"

\* C19: the number of Bitflip consumptions accepted for one (signer, index)
\* never exceeds the width of the bitmap; once every bit is set, every
\* further consumption on that (signer, index) is rejected, while another
\* index of the same signer still accepts.
C19_BoundedCapacity ==
    /\ [](CapacityBounded)
    /\ [][FullBitmapRejects]_vars
    /\ [][OtherIndexAccepts]_vars

\* As many consumptions as the bitmap has bits were accepted on one bitmap,
\* one bit each: the bitmap is full.
C19_Witness ==
    /\ NumAccepted(accepted, "admin", 0, AddressOne) = BitmapWidth
    /\ nonceStore[StoreIndex("admin", 0, AddressOne)] = FullBitmap

\* A further consumption on the full bitmap was rejected.
C19_WitnessRejected ==
    /\ last.op = "bitflipPublic" /\ last.err = "BitAlreadyUsed"
    /\ nonceStore[SlotOf(last)] = FullBitmap
    /\ Accepted(accepted) # {}

\* With one bitmap of the signer full, another index accepted a mask.
C19_WitnessOtherIndex ==
    /\ last.op = "bitflipPublic" /\ last.err = "none" /\ last.index = 6175
    /\ nonceStore[StoreIndex(last.signer, 0, AddressOne)] = FullBitmap
    /\ nonceStore[SlotOf(last)] = last.value

(*************************** C20 *******************************************)
\* The transaction presents a call its claimed signer signed for the hub,
\* with a replay protection the strategy accepts on the store s.
Verifiable(s, tx) ==
    /\ SignedAsPresented(tx)
    /\ tx.recovered = tx.signer
    /\ DispatchAnswer(s, tx) = "none"

\* The meta-transactions whose target call was made.
Called(cs) == {cs[k] : k \in 1 .. Len(cs)}

\* A forward whose verification succeeds and whose target call fails does
\* not revert: the replay protection is consumed, the call was made and a
\* Revert event is emitted.
FailedCallConsumes ==
    (Executed("forward") /\ Verifiable(nonceStore, last') /\ ~last'.success)
        => /\ last'.err = "none"
           /\ nonceStore'[SlotOf(last')] # nonceStore[SlotOf(last')]
           /\ NumAccepted(accepted', last'.signer, last'.index, last'.authority)
                 = NumAccepted(accepted, last'.signer, last'.index, last'.authority) + 1
           /\ calls' = Append(calls, Forwarded(last'))
           /\ events' = Append(events, <<"Revert">>)

\* A meta-transaction whose target call was made, failed or not, is rejected
\* when it is submitted again.
ResubmissionRejected ==
    (Executed("forward") /\ Forwarded(last') \in Called(calls))
        => /\ last'.err \in {"NonceOutOfOrder", "BitAlreadyUsed"}
           /\ calls' = calls
           /\ events' = events
           /\ nonceStore' = nonceStore

\* C20: when verification succeeds and the target call fails, forward does
\* not revert: the replay protection stays consumed and a Revert event is
\* emitted; the same signed meta-transaction submitted again is rejected, so
\* the failed call is not retried with the same nonce or bit.
C20_FailedCallStaysConsumed ==
    /\ [][FailedCallConsumes]_vars
    /\ [][ResubmissionRejected]_vars

\* The target call of a forwarded meta-transaction failed, and the same
\* meta-transaction submitted again was rejected by Multinonce.
C20_Witness ==
    /\ ntx = 2 /\ last.op = "forward" /\ last.err = "NonceOutOfOrder"
    /\ calls = <<Forwarded(last)>>
    /\ events = <<<<"Revert">>>>
    /\ nonceStore[SlotOf(last)] = last.value + 1

\* The same under Bitflip.
C20_WitnessBitflip ==
    /\ ntx = 2 /\ last.op = "forward" /\ last.err = "BitAlreadyUsed"
    /\ calls = <<Forwarded(last)>>
    /\ events = <<<<"Revert">>>>
    /\ nonceStore[SlotOf(last)] = last.value

\* The failed call itself: consumed, with the event.
C20_WitnessFailedCall ==
    /\ ntx = 1 /\ last.op = "forward" /\ last.err = "none" /\ ~last.success
    /\ calls = <<Forwarded(last)>>
    /\ events = <<<<"Revert">>>>
    /\ nonceStore[SlotOf(last)] # 0

(*************************** C21 *******************************************)
\* The transaction is a forward or a deployContract that presents a
\* Multinonce replay protection.
HubMultinonce(tx) ==
    tx.op \in {"forward", "deployContract"} /\ tx.authority = AddressZero

\* The nonce stored for every queue of the hub is the number of
\* consumptions accepted on it, by forward and by deployContract together.
HubCounterCountsBoth ==
    \A s \in Signers, i \in Indices :
        nonceStore[StoreIndex(s, i, AddressZero)] = NumAccepted(accepted, s, i, AddressZero)

\* An accepted deployContract with nonce n leaves n + 1 on its queue.
DeployConsumes ==
    (Executed("deployContract") /\ last'.authority = AddressZero /\ last'.err = "none")
        => /\ nonceStore[SlotOf(last')] = last'.value
           /\ nonceStore'[SlotOf(last')] = last'.value + 1

\* Either operation is accepted only with the nonce stored for its queue,
\* and with any other nonce it is rejected and changes nothing; a forward
\* the signer signed with the stored nonce is accepted.
OneQueueForBoth ==
    (ntx' = ntx + 1 /\ HubMultinonce(last'))
        => /\ last'.err = "none" => last'.value = nonceStore[SlotOf(last')]
           /\ (last'.recovered = last'.signer /\ last'.value # nonceStore[SlotOf(last')])
                 => /\ last'.err = "NonceOutOfOrder"
                    /\ nonceStore' = nonceStore
                    /\ calls' = calls
                    /\ deployed' = deployed
           /\ (last'.op = "forward" /\ Verifiable(nonceStore, last')) => last'.err = "none"

\* C21: forward and deployContract consume from the one nonceStore of the
\* hub: once deployContract was accepted with Multinonce nonce n on queue q
\* of a signer, the queue holds n + 1 and never less afterwards, so a forward
\* or another deployContract presenting nonce n on q for that signer is
\* rejected, and the next value accepted on q, for either operation, is
\* n + 1.
C21_SharedNonceStore ==
    /\ [](HubCounterCountsBoth)
    /\ [][DeployConsumes]_vars
    /\ [][OneQueueForBoth]_vars
    /\ [][CounterStep]_vars

\* deployContract was accepted with nonce 0; a forward the signer signed
\* with nonce 0 on the same queue is rejected.
C21_Witness ==
    /\ ntx = 2 /\ Len(events) = 1 /\ events[1][1] = "Deployed"
    /\ last.op = "forward" /\ last.authority = AddressZero /\ last.value = 0
    /\ SignedAsPresented(last) /\ events[1][2] = last.signer
    /\ last.err = "NonceOutOfOrder"
    /\ nonceStore[SlotOf(last)] = 1 /\ calls = <<>>

\* The same for a second deployContract with nonce 0.
C21_WitnessSecondDeploy ==
    /\ ntx = 2 /\ Len(events) = 1 /\ events[1][1] = "Deployed"
    /\ last.op = "deployContract" /\ last.authority = AddressZero /\ last.value = 0
    /\ last.recovered = last.signer /\ events[1][2] = last.signer
    /\ last.err = "NonceOutOfOrder"
    /\ nonceStore[SlotOf(last)] = 1

\* After deployContract with nonce 0, a forward with nonce 1 is accepted.
C21_WitnessNextForward ==
    /\ ntx = 2 /\ Len(events) >= 1
    /\ events[1][1] = "Deployed" /\ events[1][2] = last.signer
    /\ last.op = "forward" /\ last.authority = AddressZero /\ last.value = 1
    /\ last.err = "none"
    /\ nonceStore[SlotOf(last)] = 2 /\ Len(calls) = 1

\* After a forward with nonce 0, deployContract with nonce 1 is accepted.
C21_WitnessNextDeploy ==
    /\ ntx = 2 /\ Len(calls) = 1 /\ calls[1][5] = last.signer
    /\ last.op = "deployContract" /\ last.authority = AddressZero /\ last.value = 1
    /\ last.err = "none"
    /\ nonceStore[SlotOf(last)] = 2 /\ deployed # {}

\* deployContract with the stored nonce reverted in Create2, because the
\* address was taken by a deployment under Bitflip with the same replay
\* protection: the nonce is not consumed.
C21_WitnessCreate2 ==
    /\ last.op = "deployContract" /\ last.authority = AddressZero
    /\ last.err = "Create2Failed"
    /\ nonceStore[SlotOf(last)] = last.value

====
